---- MODULE Spec2Model ----
(***************************************************************************)
(* Model of the coil engine core: GameConfig validation, the InputHandler  *)
(* (raw-mode lifecycle, poll, drain), the double-buffered BasicRenderer    *)
(* and the fixed-timestep EventLoop.                                       *)
(*                                                                         *)
(* Durations are whole ticks; one second is TicksPerSec ticks.  Poll       *)
(* timeouts and poll waits are whole milliseconds.                         *)
(***************************************************************************)
EXTENDS Integers, Sequences, FiniteSets, TLC

\* ---------------------------------------------------------------- bounds
TicksPerSec == 4
MaxFps == 9
MaxFrameTime == 3
MaxQueue == 3
MaxCustomTimeout == 2
MaxPollWait == 18

MaxElapsed == MaxFrameTime + 2
MaxUpdates == TicksPerSec + MaxFrameTime

\* ------------------------------------------------------- program constants
NonBlockingTimeoutMs == 1
FrameBudgetedTimeoutMs == 16
\* u16 arithmetic is modulo 2^16
U16Modulus == 65536

\* Key events the terminal backend can deliver (the key codes of the tests).
Events == {"a", "Enter", "Esc"}

VARIABLES
    config,         \* GameConfig
    pc,             \* control location of the caller of the engine
    result,         \* what EventLoop::new / EventLoop::run / validate returned
    raw_mode,       \* the terminal's raw-mode flag
    handler,        \* lifetime of the InputHandler: "none", "alive", "dropped"
    renderer,       \* lifetime of the BasicRenderer: "none", "alive", "dropped"
    disable_calls,  \* number of disable_raw_mode calls made
    disable_failed, \* a disable_raw_mode call returned Err
    queue,          \* InputHandler.queue
    pushed,         \* the events read() delivered since the last drain, in order
    expected,       \* value of `pushed` when drain was last called
    drained,        \* the Vec returned by the last drain
    prev_drained,   \* the Vec returned by the drain before the last one, when
                    \* no poll was called between the two
    ndrains,        \* consecutive drains without a push in between (capped at 2)
    next_ev,        \* position of the for-loop in `drained`
    dispatched,     \* the events passed to state.on_event in this iteration
    poll_waited,    \* milliseconds the current InputHandler::poll has waited
    io_failed,      \* the backend reported an I/O failure during the current poll
    poll_ret,       \* what the last InputHandler::poll returned
    lag_time,       \* run's lag accumulator
    lag_in,         \* lag carried into the current iteration
    raw_elapsed,    \* elapsed time as measured, before clamping
    elapsed,        \* elapsed time after clamping
    updates,        \* state.update calls made in this iteration
    delta,          \* the delta time that the last state.update call received
    frame_calls,    \* clear / render / flush calls made in this iteration
    iterated,       \* at least one iteration of the loop has completed
    width,          \* BasicRenderer.width
    height,         \* BasicRenderer.height
    back_buffer,    \* BasicRenderer.back_buffer, indexed from 0
    front_buffer,   \* BasicRenderer.front_buffer, indexed from 0
    term,           \* the terminal's grid: the non-blank cells it shows, by <<x, y>>
    alt_screen,     \* the terminal is in the alternate screen
    last,           \* the last call made on the renderer by its owner
    drawn           \* the cells a state drew in this render and in the one before

cfgVars == <<config>>
termVars == <<raw_mode, handler, renderer, disable_calls, disable_failed>>
queueVars == <<queue, pushed, expected, drained, prev_drained, ndrains>>
dispVars == <<next_ev, dispatched>>
pollVars == <<poll_waited, io_failed, poll_ret>>
timeVars == <<lag_time, lag_in, raw_elapsed, elapsed, updates, delta>>
frameVars == <<frame_calls, iterated>>
bufVars == <<width, height, back_buffer, front_buffer, term>>
rendVars == <<width, height, back_buffer, front_buffer, term, alt_screen, last,
              drawn>>
vars == <<config, pc, result, raw_mode, handler, renderer, disable_calls,
          disable_failed, queue, pushed, expected, drained, prev_drained, ndrains,
          next_ev,
          dispatched, poll_waited, io_failed, poll_ret, lag_time, lag_in,
          raw_elapsed, elapsed, updates, delta, frame_calls, iterated, width,
          height,
          back_buffer, front_buffer, term, alt_screen, last, drawn>>

\* ------------------------------------------------------------------ config

InputStrategies ==
    {[kind |-> "NonBlocking", dur |-> 0], [kind |-> "FrameBudgeted", dur |-> 0]}
    \cup {[kind |-> "Timeout", dur |-> d] : d \in 1..MaxCustomTimeout}

\* InputStrategy::timeout
timeout(strategy) ==
    CASE strategy.kind = "NonBlocking" -> NonBlockingTimeoutMs
      [] strategy.kind = "FrameBudgeted" -> FrameBudgetedTimeoutMs
      [] strategy.kind = "Timeout" -> strategy.dur

\* Screen sizes a configuration may ask for: a row, a column, an empty
\* screen, and one whose cell count does not fit in 16 bits.
ScreenSizes == {<<2, 1>>, <<1, 2>>, <<0, 2>>, <<256, 256>>}

\* The screen size of the event loop's runs.
LoopScreenSize == <<2, 1>>

GameConfigs ==
    [target_fps : 0..MaxFps, input_strategy : InputStrategies,
     max_frame_time : 0..MaxFrameTime, debug_mode : BOOLEAN, vsync : BOOLEAN,
     screen_size : ScreenSizes]

validate_NoFrameTimeCheck(cfg) ==
    IF cfg.target_fps = 0 THEN "ErrConfig" ELSE "Ok"

\* GameConfig::validate
validate(cfg) ==
    IF cfg.target_fps = 0 THEN "ErrConfig"
    ELSE IF cfg.max_frame_time = 0 THEN "ErrConfig"
    ELSE "Ok"

\* Duration::from_secs_f32(1.0 / fps): the quotient rounded to the nearest
\* representable duration, ties to even.
from_secs_f32_recip(fps) ==
    LET q == TicksPerSec \div fps
        r == TicksPerSec % fps
    IN  IF 2 * r > fps \/ (2 * r = fps /\ q % 2 = 1) THEN q + 1 ELSE q

\* GameConfig::frame_duration
frame_duration(cfg) == from_secs_f32_recip(cfg.target_fps)

\* Duration::as_secs_f32: the duration in seconds, as the fraction of ticks
\* over ticks per second (every such fraction of the model is a float).
as_secs_f32(d) == [num |-> d, den |-> TicksPerSec]

\* No state.update call has been made yet.
NoDelta == [num |-> 0, den |-> 0]

\* ------------------------------------------------------------ InputHandler

\* VecDeque::push_back
push_back(q, e) == Append(q, e)

RECURSIVE collect(_, _)
\* queue.drain(..).collect(): pops from the front until the queue is empty
collect(q, out) ==
    IF q = <<>> THEN [ret |-> out, queue |-> q]
    ELSE collect(Tail(q), Append(out, Head(q)))

drain_DropsLast(q) ==
    IF q = <<>> THEN [ret |-> <<>>, queue |-> <<>>]
    ELSE [ret |-> SubSeq(q, 1, Len(q) - 1), queue |-> <<>>]

\* InputHandler::drain
drain(q) == collect(q, <<>>)

\* MockState::on_event with exit_after_n_events = None
on_event(ev) == ev = "Esc"

\* ------------------------------------------------------------ BasicRenderer
\* Cell { ch, fg, bg }; the derived equality compares all three fields.
Cell(ch, fg, bg) == [ch |-> ch, fg |-> fg, bg |-> bg]

cell_eq_GlyphOnly(a, b) == a.ch = b.ch

\* Cell's derived PartialEq.
cell_eq(a, b) == a.ch = b.ch /\ a.fg = b.fg /\ a.bg = b.bg

\* The blank cell that new and clear fill the buffers with.
Blank == Cell(" ", "Reset", "Reset")

\* Characters and colour pairs that draw_str is called with.
Chars == {"x", "y"}
StrColors == {<<"Red", "Blue">>}

\* Cells that draw_cell is called with: the blank cell and cells that differ
\* from it in the glyph only, the foreground only, the background only.
DrawCells ==
    {Blank, Cell("x", "Reset", "Reset"), Cell(" ", "Red", "Reset"),
     Cell(" ", "Reset", "Blue")}

\* overflow-checks of the build: on (debug profile) or off (release profile).
Builds == {"debug", "release"}

\* width * height on u16 operands: the product if it fits; otherwise a
\* panic with overflow checks on and the wrapped product with them off.
mul_u16(a, b, build) ==
    IF a * b < U16Modulus THEN [ret |-> "Ok", val |-> a * b]
    ELSE IF build = "debug" THEN [ret |-> "panic", val |-> 0]
    ELSE [ret |-> "Ok", val |-> (a * b) % U16Modulus]

\* x + i as u16, on the same terms.
add_u16(a, b, build) ==
    IF a + b < U16Modulus THEN [ret |-> "Ok", val |-> a + b]
    ELSE IF build = "debug" THEN [ret |-> "panic", val |-> 0]
    ELSE [ret |-> "Ok", val |-> (a + b) % U16Modulus]

\* vec![blank; n], indexed from 0 as in the source.
vec(cell, n) == [i \in 0..(n - 1) |-> cell]

len(buffer) == Cardinality(DOMAIN buffer)

\* The buffers that BasicRenderer::new allocates.
new(w, h, build) ==
    LET n == mul_u16(w, h, build)
    IN  IF n.ret = "Ok"
        THEN [ret |-> "Ok", back |-> vec(Blank, n.val), front |-> vec(Blank, n.val)]
        ELSE [ret |-> "panic", back |-> <<>>, front |-> <<>>]

index(w, h, x, y) ==
    IF x >= w \/ y >= h
    THEN [ret |-> "ErrRender", val |-> 0]
    ELSE [ret |-> "Ok", val |-> y * w + x]

coordinates(w, buffer, i) ==
    IF i >= len(buffer)
    THEN [ret |-> "ErrRender", x |-> 0, y |-> 0]
    ELSE [ret |-> "Ok", x |-> i % w, y |-> i \div w]

clear_DrawsOnFront(back, front) ==
    [ret |-> "Ok", back |-> [i \in DOMAIN back |-> Blank],
     front |-> [i \in DOMAIN front |-> Blank]]

clear(back, front) ==
    [ret |-> "Ok", back |-> [i \in DOMAIN back |-> Blank], front |-> front]

\* self.back_buffer[index] = cell panics when index is past the end.
draw_cell(w, h, back, x, y, cell) ==
    LET ix == index(w, h, x, y)
    IN  IF ix.ret # "Ok" THEN [ret |-> ix.ret, back |-> back]
        ELSE IF ix.val \notin DOMAIN back THEN [ret |-> "panic", back |-> back]
        ELSE [ret |-> "Ok", back |-> [back EXCEPT ![ix.val] = cell]]

\* The loop of draw_str from character i (counted from 0) on.  Each
\* character is drawn twice: the first draw_cell only logs a Render error,
\* the second one propagates it with `?`.
RECURSIVE draw_str_from(_, _, _, _, _, _, _, _, _, _)

draw_str_from(w, h, back, x, y, text, fg, bg, build, i) ==
    IF i >= Len(text) THEN [ret |-> "Ok", back |-> back]
    ELSE
        LET cell == Cell(text[i + 1], fg, bg)
            cx == add_u16(x, i, build)
            first == draw_cell(w, h, back, cx.val, y, cell)
            second == draw_cell(w, h, first.back, cx.val, y, cell)
        IN  IF cx.ret = "panic" \/ first.ret = "panic"
            THEN [ret |-> "panic", back |-> back]
            ELSE IF second.ret # "Ok" THEN second
            ELSE draw_str_from(w, h, second.back, x, y, text, fg, bg, build, i + 1)

draw_str(w, h, back, x, y, text, fg, bg, build) ==
    draw_str_from(w, h, back, x, y, text, fg, bg, build, 0)

\* What the terminal shows at (x, y); cells never drawn are blank.
TermAt(t, x, y) == IF <<x, y>> \in DOMAIN t THEN t[<<x, y>>] ELSE Blank

TermPut_Transposed(t, x, y, cell) ==
    IF cell = Blank
    THEN [p \in DOMAIN t \ {<<y, x>>} |-> t[p]]
    ELSE [p \in DOMAIN t \cup {<<y, x>>} |-> IF p = <<y, x>> THEN cell ELSE t[p]]

\* MoveTo(x, y), SetForegroundColor, SetBackgroundColor, Print(ch) reaching
\* the terminal.
TermPut(t, x, y, cell) ==
    IF cell = Blank
    THEN [p \in DOMAIN t \ {<<x, y>>} |-> t[p]]
    ELSE [p \in DOMAIN t \cup {<<x, y>>} |-> IF p = <<x, y>> THEN cell ELSE t[p]]

\* Where a flush can meet an I/O failure: nowhere (-1), at the execute! of
\* an index that differs, or at the final out.flush() (the buffer length).
FlushFailPoints(back, front) ==
    {-1} \cup {i \in DOMAIN back : ~cell_eq(back[i], front[i])} \cup {len(back)}

RECURSIVE flush_from_FrontFirst(_, _, _, _, _)

flush_from_FrontFirst(w, back, st, fail, i) ==
    IF i >= len(back)
    THEN [st EXCEPT !.ret = IF fail = len(back) THEN "ErrRender" ELSE "Ok"]
    ELSE
        LET xy == coordinates(w, back, i)
        IN  IF xy.ret # "Ok" THEN [st EXCEPT !.ret = xy.ret]
            ELSE IF cell_eq(back[i], st.front[i])
                 THEN flush_from_FrontFirst(w, back, st, fail, i + 1)
            ELSE IF fail = i
                 THEN [st EXCEPT !.ret = "ErrRender",
                                 !.front = [st.front EXCEPT ![i] = back[i]]]
            ELSE flush_from_FrontFirst(w, back,
                    [st EXCEPT !.term = TermPut(st.term, xy.x, xy.y, back[i]),
                               !.emitted = Append(st.emitted,
                                   [index |-> i, x |-> xy.x, y |-> xy.y,
                                    cell |-> back[i]]),
                               !.front = [st.front EXCEPT ![i] = back[i]]],
                    fail, i + 1)

\* The loop of flush from index i on; st carries front, term and the
\* cell-draw outputs emitted so far.  A failed execute! draws nothing.
RECURSIVE flush_from(_, _, _, _, _)

flush_from(w, back, st, fail, i) ==
    IF i >= len(back)
    THEN [st EXCEPT !.ret = IF fail = len(back) THEN "ErrRender" ELSE "Ok"]
    ELSE
        LET xy == coordinates(w, back, i)
        IN  IF xy.ret # "Ok" THEN [st EXCEPT !.ret = xy.ret]
            ELSE IF cell_eq(back[i], st.front[i])
                 THEN flush_from(w, back, st, fail, i + 1)
            ELSE IF fail = i THEN [st EXCEPT !.ret = "ErrRender"]
            ELSE flush_from(w, back,
                    [st EXCEPT !.term = TermPut(st.term, xy.x, xy.y, back[i]),
                               !.emitted = Append(st.emitted,
                                   [index |-> i, x |-> xy.x, y |-> xy.y,
                                    cell |-> back[i]]),
                               !.front = [st.front EXCEPT ![i] = back[i]]],
                    fail, i + 1)

flush(w, back, front, t, fail) ==
    flush_from(w, back,
               [ret |-> "Ok", front |-> front, term |-> t, emitted |-> <<>>],
               fail, 0)

\* The call before was not a failed flush.
NotFailed == {-1}

\* The indices of a sequence of cell-draw outputs.
Indices(emitted) == {emitted[k].index : k \in 1..Len(emitted)}

\* The record of a call made on the renderer, whether the call before it
\* was a successful flush and, when the call before it was a failed flush,
\* the indices that flush had emitted.
Call(op, ret, x, y, cell, text, emitted) ==
    [op |-> op, ret |-> ret, x |-> x, y |-> y, cell |-> cell, text |-> text,
     emitted |-> emitted, after_flush |-> last.after_flush,
     after_failed |-> last.after_failed]

NoCall ==
    [op |-> "none", ret |-> "Ok", x |-> 0, y |-> 0, cell |-> Blank,
     text |-> <<>>, emitted |-> <<>>, after_flush |-> FALSE,
     after_failed |-> NotFailed]

\* What a state's render calls drew: the non-blank cells of this render
\* (cur) and of the render before it (prev), by <<x, y>>.
NoFrame == [cur |-> <<>>, prev |-> <<>>]

\* No renderer has been constructed.
NoRenderer ==
    /\ width = 0 /\ height = 0
    /\ back_buffer = <<>> /\ front_buffer = <<>>
    /\ term = <<>> /\ alt_screen = FALSE
    /\ last = NoCall
    /\ drawn = NoFrame

\* ------------------------------------------------------------------- Init

Idle ==
    /\ raw_mode = FALSE /\ handler = "none" /\ renderer = "none"
    /\ disable_calls = 0 /\ disable_failed = FALSE
    /\ queue = <<>> /\ pushed = <<>> /\ expected = <<>> /\ drained = <<>>
    /\ prev_drained = <<>>
    /\ ndrains = 0 /\ next_ev = 1 /\ dispatched = <<>>
    /\ poll_waited = 0 /\ io_failed = FALSE /\ poll_ret = "none"
    /\ lag_time = 0 /\ lag_in = 0 /\ raw_elapsed = 0 /\ elapsed = 0
    /\ updates = 0 /\ delta = NoDelta /\ frame_calls = <<>> /\ iterated = FALSE
    /\ result = "none"
    /\ NoRenderer

\* GameConfig::new leaves debug_mode = false and vsync = true; the caller
\* chooses the frame rate, the frame-time cap and the input strategy.
Init ==
    /\ config \in {c \in GameConfigs :
                      /\ c.debug_mode = FALSE /\ c.vsync = TRUE
                      /\ c.screen_size = LoopScreenSize}
    /\ pc = "new_validate"
    /\ Idle

\* ---------------------------------------------------------- EventLoop::new

\* Drop for InputHandler: disable_raw_mode is attempted once; a failure is
\* printed and swallowed, and the terminal then stays as it was.
DropInputHandler ==
    \E ok \in BOOLEAN :
        /\ handler' = "dropped"
        /\ disable_calls' = disable_calls + 1
        /\ raw_mode' = IF ok THEN FALSE ELSE raw_mode
        /\ disable_failed' = (disable_failed \/ ~ok)

NewValidate_AfterInputHandler ==
    /\ pc = "new_validate"
    /\ UNCHANGED rendVars
    /\ IF validate(config) = "Ok"
       THEN pc' = "new_input" /\ UNCHANGED <<result, termVars>>
       ELSE /\ pc' = "failed" /\ result' = validate(config)
            /\ DropInputHandler
            /\ UNCHANGED renderer
    /\ UNCHANGED <<cfgVars, queueVars, dispVars, pollVars, timeVars, frameVars>>

\* config.validate()?
NewValidate ==
    /\ pc = "new_validate"
    /\ UNCHANGED rendVars
    /\ IF validate(config) = "Ok"
       THEN pc' = "new_input" /\ UNCHANGED result
       ELSE pc' = "failed" /\ result' = validate(config)
    /\ UNCHANGED <<cfgVars, termVars, queueVars, dispVars, pollVars, timeVars,
                   frameVars>>

\* InputHandler::new()?
NewInputHandler ==
    /\ pc = "new_input"
    /\ UNCHANGED rendVars
    /\ \/ /\ raw_mode' = TRUE          \* enable_raw_mode() returned Ok
          /\ handler' = "alive"
          /\ queue' = <<>>
          /\ pc' = "new_renderer"
          /\ UNCHANGED result
       \/ /\ result' = "ErrInput"      \* enable_raw_mode() returned Err
          /\ pc' = "failed"
          /\ UNCHANGED <<raw_mode, handler, queue>>
    /\ UNCHANGED <<cfgVars, renderer, disable_calls, disable_failed, pushed,
                   expected, drained, prev_drained, ndrains, dispVars, pollVars, timeVars,
                   frameVars>>

NewRenderer_LeaksHandler ==
    /\ pc = "new_renderer"
    /\ \/ \E build \in Builds :
            LET r == new(config.screen_size[1], config.screen_size[2], build)
            IN  /\ alt_screen' = TRUE
                /\ IF r.ret = "Ok"
                   THEN /\ renderer' = "alive"
                        /\ width' = config.screen_size[1]
                        /\ height' = config.screen_size[2]
                        /\ back_buffer' = r.back
                        /\ front_buffer' = r.front
                        /\ pc' = "ready"
                   ELSE /\ pc' = "panicked"
                        /\ UNCHANGED <<renderer, width, height, back_buffer,
                                       front_buffer>>
                /\ UNCHANGED <<result, raw_mode, handler, disable_calls,
                               disable_failed, term, last, drawn>>
       \/ /\ result' = "ErrInput"
          /\ pc' = "failed"
          /\ alt_screen' \in BOOLEAN
          /\ UNCHANGED <<renderer, raw_mode, handler, disable_calls,
                         disable_failed, bufVars, last, drawn>>
    /\ UNCHANGED <<cfgVars, queueVars, dispVars, pollVars, timeVars, frameVars>>

\* BasicRenderer::new(width, height)?  The terminal is set up first, then the
\* buffers are allocated.  A failed execute! may have sent any part of its
\* commands, so the alternate screen may or may not have been entered.  When
\* new fails or panics, the InputHandler that was already built for the
\* struct literal is dropped.
NewRenderer ==
    /\ pc = "new_renderer"
    /\ \/ \E build \in Builds :         \* terminal setup succeeded
            LET r == new(config.screen_size[1], config.screen_size[2], build)
            IN  /\ alt_screen' = TRUE
                /\ IF r.ret = "Ok"
                   THEN /\ renderer' = "alive"
                        /\ width' = config.screen_size[1]
                        /\ height' = config.screen_size[2]
                        /\ back_buffer' = r.back
                        /\ front_buffer' = r.front
                        /\ pc' = "ready"
                        /\ UNCHANGED <<raw_mode, handler, disable_calls,
                                       disable_failed>>
                   ELSE /\ pc' = "panicked"
                        /\ DropInputHandler
                        /\ UNCHANGED <<renderer, width, height, back_buffer,
                                       front_buffer>>
                /\ UNCHANGED <<result, term, last, drawn>>
       \/ /\ result' = "ErrInput"      \* execute!(..) returned Err
          /\ pc' = "failed"
          /\ alt_screen' \in BOOLEAN
          /\ DropInputHandler
          /\ UNCHANGED <<renderer, bufVars, last, drawn>>
    /\ UNCHANGED <<cfgVars, queueVars, dispVars, pollVars, timeVars, frameVars>>

\* ---------------------------------------------------------- EventLoop::run

\* previous_time = now, lag_time = ZERO, frame_duration = config.frame_duration()
RunStart ==
    /\ pc = "ready"
    /\ UNCHANGED rendVars
    /\ lag_time' = 0
    /\ pc' = "poll"
    /\ UNCHANGED <<cfgVars, result, termVars, queueVars, dispVars, pollVars,
                   lag_in, raw_elapsed, elapsed, updates, delta, frameVars>>

\* One pass of `while poll(timeout)?`: the backend's ready-check.
PollCheck ==
    /\ pc = "poll"
    /\ UNCHANGED rendVars
    /\ LET t == timeout(config.input_strategy) IN
       \/ \E w \in 0..t :               \* Ok(true): an event became ready
             /\ Len(queue) < MaxQueue
             /\ poll_waited + w + t <= MaxPollWait
             /\ poll_waited' = poll_waited + w
             /\ pc' = "poll_read"
             /\ UNCHANGED <<io_failed, poll_ret, result>>
       \/ /\ poll_waited' = poll_waited + t   \* Ok(false): timed out
          /\ poll_ret' = "Ok"
          /\ pc' = "drain"
          /\ UNCHANGED <<io_failed, result>>
       \/ /\ io_failed' = TRUE          \* Err(e): `?` makes it EngineError::Io
          /\ poll_ret' = "ErrIo"
          /\ result' = "ErrIo"
          /\ pc' = "returned"
          /\ UNCHANGED poll_waited
    /\ UNCHANGED <<cfgVars, termVars, queueVars, dispVars, timeVars, frameVars>>

\* `if let Ok(event) = event::read() { self.queue.push_back(event) }`
PollRead ==
    /\ pc = "poll_read"
    /\ UNCHANGED rendVars
    /\ \/ \E e \in Events :
             /\ queue' = push_back(queue, e)
             /\ pushed' = Append(pushed, e)
             /\ ndrains' = 0
             /\ UNCHANGED io_failed
       \/ /\ io_failed' = TRUE          \* read() returned Err: nothing is done
          /\ UNCHANGED <<queue, pushed, ndrains>>
    /\ pc' = "poll"
    /\ UNCHANGED <<cfgVars, result, termVars, expected, drained, prev_drained,
                   dispVars, poll_waited, poll_ret, timeVars, frameVars>>

\* `for event in self.input_handler.drain()`: the call to drain
Drain ==
    /\ pc = "drain"
    /\ UNCHANGED rendVars
    /\ drained' = drain(queue).ret
    /\ prev_drained' = drained
    /\ queue' = drain(queue).queue
    /\ expected' = pushed
    /\ pushed' = <<>>
    /\ ndrains' = IF ndrains < 2 THEN ndrains + 1 ELSE 2
    /\ next_ev' = 1
    /\ dispatched' = <<>>
    /\ poll_waited' = 0 /\ io_failed' = FALSE /\ poll_ret' = "none"
    /\ pc' = "dispatch"
    /\ UNCHANGED <<cfgVars, result, termVars, timeVars, frameVars>>

Dispatch_DefersExit ==
    /\ pc = "dispatch"
    /\ UNCHANGED rendVars
    /\ IF next_ev <= Len(drained)
       THEN /\ dispatched' = Append(dispatched, drained[next_ev])
            /\ next_ev' = next_ev + 1
            /\ UNCHANGED <<pc, result>>
       ELSE /\ IF \E i \in 1..Len(dispatched) : on_event(dispatched[i])
               THEN result' = "Ok" /\ pc' = "returned"
               ELSE pc' = "sample" /\ UNCHANGED result
            /\ UNCHANGED dispVars
    /\ UNCHANGED <<cfgVars, termVars, queueVars, pollVars, timeVars, frameVars>>

Dispatch_SkipsFirst ==
    /\ pc = "dispatch"
    /\ UNCHANGED rendVars
    /\ IF next_ev <= Len(drained)
       THEN IF next_ev = 1 /\ Len(drained) > 1
            THEN /\ next_ev' = 2
                 /\ UNCHANGED <<dispatched, pc, result>>
            ELSE /\ dispatched' = Append(dispatched, drained[next_ev])
                 /\ IF on_event(drained[next_ev])
                    THEN result' = "Ok" /\ pc' = "returned" /\ UNCHANGED next_ev
                    ELSE next_ev' = next_ev + 1 /\ UNCHANGED <<pc, result>>
       ELSE /\ pc' = "sample"
            /\ UNCHANGED <<dispVars, result>>
    /\ UNCHANGED <<cfgVars, termVars, queueVars, pollVars, timeVars, frameVars>>

\* One pass of the for-loop: `if state.on_event(event) { return Ok(()) }`,
\* or the end of the loop when the Vec is exhausted.
Dispatch ==
    /\ pc = "dispatch"
    /\ UNCHANGED rendVars
    /\ IF next_ev <= Len(drained)
       THEN /\ dispatched' = Append(dispatched, drained[next_ev])
            /\ IF on_event(drained[next_ev])
               THEN result' = "Ok" /\ pc' = "returned" /\ UNCHANGED next_ev
               ELSE next_ev' = next_ev + 1 /\ UNCHANGED <<pc, result>>
       ELSE /\ pc' = "sample"
            /\ UNCHANGED <<dispVars, result>>
    /\ UNCHANGED <<cfgVars, termVars, queueVars, pollVars, timeVars, frameVars>>

clamp_None(e, max) == e

\* `if elapsed > max_frame_time { elapsed = max_frame_time }`
clamp(e, max) == IF e > max THEN max ELSE e

\* now - previous_time, the clamp, and `lag_time += elapsed`
Sample ==
    /\ pc = "sample"
    /\ UNCHANGED rendVars
    /\ \E e \in 0..MaxElapsed :
          /\ raw_elapsed' = e
          /\ elapsed' = clamp(e, config.max_frame_time)
          /\ lag_time' = lag_time + clamp(e, config.max_frame_time)
    /\ lag_in' = lag_time
    /\ updates' = 0
    /\ pc' = "catchup"
    /\ UNCHANGED delta
    /\ UNCHANGED <<cfgVars, result, termVars, queueVars, dispVars, pollVars,
                   frameVars>>

CatchUp_OneTooFew ==
    /\ pc = "catchup"
    /\ UNCHANGED rendVars
    /\ IF lag_time > frame_duration(config)
       THEN /\ updates < MaxUpdates
            /\ updates' = updates + 1
            /\ delta' = as_secs_f32(frame_duration(config))
            /\ lag_time' = lag_time - frame_duration(config)
            /\ UNCHANGED pc
       ELSE /\ pc' = "clear"
            /\ UNCHANGED <<updates, delta, lag_time>>
    /\ UNCHANGED <<cfgVars, result, termVars, queueVars, dispVars, pollVars,
                   lag_in, raw_elapsed, elapsed, frameVars>>

CatchUp_SingleUpdate ==
    /\ pc = "catchup"
    /\ UNCHANGED rendVars
    /\ IF lag_time >= frame_duration(config)
       THEN /\ updates' = updates + 1
            /\ delta' = as_secs_f32(frame_duration(config))
            /\ lag_time' = lag_time - frame_duration(config)
       ELSE UNCHANGED <<updates, delta, lag_time>>
    /\ pc' = "clear"
    /\ UNCHANGED <<cfgVars, result, termVars, queueVars, dispVars, pollVars,
                   lag_in, raw_elapsed, elapsed, frameVars>>

CatchUp_VariableStep ==
    /\ pc = "catchup"
    /\ UNCHANGED rendVars
    /\ IF lag_time >= frame_duration(config)
       THEN /\ updates < MaxUpdates
            /\ updates' = updates + 1
            /\ delta' = as_secs_f32(lag_time)
            /\ lag_time' = 0
            /\ UNCHANGED pc
       ELSE /\ pc' = "clear"
            /\ UNCHANGED <<updates, delta, lag_time>>
    /\ UNCHANGED <<cfgVars, result, termVars, queueVars, dispVars, pollVars,
                   lag_in, raw_elapsed, elapsed, frameVars>>

\* One test of `while lag_time >= frame_duration`, with the body when it holds.
CatchUp ==
    /\ pc = "catchup"
    /\ UNCHANGED rendVars
    /\ IF lag_time >= frame_duration(config)
       THEN /\ updates < MaxUpdates
            /\ updates' = updates + 1        \* state.update(frame_duration)
            /\ delta' = as_secs_f32(frame_duration(config))
            /\ lag_time' = lag_time - frame_duration(config)
            /\ UNCHANGED pc
       ELSE /\ pc' = "clear"
            /\ UNCHANGED <<updates, delta, lag_time>>
    /\ UNCHANGED <<cfgVars, result, termVars, queueVars, dispVars, pollVars,
                   lag_in, raw_elapsed, elapsed, frameVars>>

Clear_SkipsRender ==
    /\ pc = "clear"
    /\ LET r == clear(back_buffer, front_buffer)
       IN  back_buffer' = r.back /\ front_buffer' = r.front
    /\ frame_calls' = Append(frame_calls, "clear")
    /\ pc' = "flush"
    /\ UNCHANGED <<width, height, term, alt_screen, last, drawn>>
    /\ UNCHANGED <<cfgVars, result, termVars, queueVars, dispVars, pollVars,
                   timeVars, iterated>>

\* self.renderer.clear()?
Clear ==
    /\ pc = "clear"
    /\ LET r == clear(back_buffer, front_buffer)
       IN  back_buffer' = r.back /\ front_buffer' = r.front
    /\ frame_calls' = Append(frame_calls, "clear")
    /\ pc' = "render"
    /\ UNCHANGED <<width, height, term, alt_screen, last, drawn>>
    /\ UNCHANGED <<cfgVars, result, termVars, queueVars, dispVars, pollVars,
                   timeVars, iterated>>

Render_ReturnsOk ==
    /\ pc = "render"
    /\ frame_calls' = Append(frame_calls, "render")
    /\ pc' = "returned"
    /\ result' = "Ok"
    /\ UNCHANGED rendVars
    /\ UNCHANGED <<cfgVars, termVars, queueVars, dispVars, pollVars, timeVars,
                   iterated>>

\* state.render(&mut self.renderer): the state of the loop's runs draws
\* nothing.
Render ==
    /\ pc = "render"
    /\ frame_calls' = Append(frame_calls, "render")
    /\ pc' = "flush"
    /\ UNCHANGED rendVars
    /\ UNCHANGED <<cfgVars, result, termVars, queueVars, dispVars, pollVars,
                   timeVars, iterated>>

Flush_ContinuesOnError ==
    /\ pc = "flush"
    /\ \E fail \in FlushFailPoints(back_buffer, front_buffer) :
        LET r == flush(width, back_buffer, front_buffer, term, fail)
        IN  /\ front_buffer' = r.front
            /\ term' = r.term
            /\ pc' = "poll"
            /\ iterated' = TRUE
            /\ frame_calls' = <<>>
            /\ lag_in' = 0 /\ raw_elapsed' = 0 /\ elapsed' = 0 /\ updates' = 0
            /\ delta' = NoDelta
            /\ expected' = <<>> /\ drained' = <<>> /\ prev_drained' = <<>>
            /\ next_ev' = 1
            /\ dispatched' = <<>>
            /\ result' = IF r.ret = "Ok" THEN result ELSE r.ret
    /\ UNCHANGED <<width, height, back_buffer, alt_screen, last, drawn>>
    /\ UNCHANGED <<cfgVars, termVars, queue, pushed, ndrains, pollVars, lag_time>>

\* self.renderer.flush()?  and the jump back to the top of the loop
Flush ==
    /\ pc = "flush"
    /\ \E fail \in FlushFailPoints(back_buffer, front_buffer) :
        LET r == flush(width, back_buffer, front_buffer, term, fail)
        IN  /\ front_buffer' = r.front
            /\ term' = r.term
            /\ IF r.ret = "Ok"
               THEN /\ pc' = "poll"               \* Ok: next iteration
                    /\ iterated' = TRUE
                    /\ frame_calls' = <<>>
                    /\ lag_in' = 0 /\ raw_elapsed' = 0 /\ elapsed' = 0
                    /\ updates' = 0 /\ delta' = NoDelta
                    /\ expected' = <<>> /\ drained' = <<>>
                    /\ prev_drained' = <<>>
                    /\ next_ev' = 1
                    /\ dispatched' = <<>>
                    /\ UNCHANGED result
               ELSE /\ result' = r.ret            \* Err: run returns it
                    /\ pc' = "returned"
                    /\ frame_calls' = Append(frame_calls, "flush")
                    /\ UNCHANGED <<iterated, lag_in, raw_elapsed, elapsed,
                                   updates, delta, expected, drained, prev_drained,
                                   next_ev, dispatched>>
    /\ UNCHANGED <<width, height, back_buffer, alt_screen, last, drawn>>
    /\ UNCHANGED <<cfgVars, termVars, queue, pushed, ndrains, pollVars, lag_time>>

\* Drop for BasicRenderer: leaving the alternate screen is attempted and its
\* result ignored.
DropBasicRenderer ==
    \E ok \in BOOLEAN :
        /\ renderer' = "dropped"
        /\ alt_screen' = IF ok THEN FALSE ELSE alt_screen

\* The EventLoop goes out of scope after run returned: its fields are dropped
\* in declaration order, input_handler first, then renderer.
DropEventLoop ==
    /\ pc = "returned"
    /\ DropInputHandler
    /\ DropBasicRenderer
    /\ pc' = "dropped"
    /\ UNCHANGED <<bufVars, last, drawn>>
    /\ UNCHANGED <<cfgVars, result, queueVars, dispVars, pollVars, timeVars,
                   frameVars>>

Next ==
    \/ NewValidate
    \/ NewInputHandler
    \/ NewRenderer
    \/ RunStart
    \/ PollCheck
    \/ PollRead
    \/ Drain
    \/ Dispatch
    \/ Sample
    \/ CatchUp
    \/ Clear
    \/ Render
    \/ Flush
    \/ DropEventLoop

Spec == Init /\ [][Next]_vars

TypeOK ==
    /\ config \in GameConfigs
    /\ result \in {"none", "Ok", "ErrConfig", "ErrInput", "ErrIo", "ErrRender"}
    /\ raw_mode \in BOOLEAN
    /\ handler \in {"none", "alive", "dropped"}
    /\ renderer \in {"none", "alive", "dropped"}
    /\ Len(queue) <= MaxQueue
    /\ lag_time \in 0..(TicksPerSec + MaxFrameTime)
    /\ updates \in 0..MaxUpdates
    /\ poll_waited \in 0..MaxPollWait

\* ------------------------------------------- GameConfig on its own (SpecConfig)

\* Any configuration the builder methods can produce.
InitConfig ==
    /\ config \in GameConfigs
    /\ pc = "cfg_call"
    /\ Idle

\* A call of config.validate()
ConfigValidate ==
    /\ pc = "cfg_call"
    /\ UNCHANGED rendVars
    /\ result' = validate(config)
    /\ pc' = "cfg_done"
    /\ UNCHANGED <<cfgVars, termVars, queueVars, dispVars, pollVars, timeVars,
                   frameVars>>

NextConfig == ConfigValidate

SpecConfig == InitConfig /\ [][NextConfig]_vars

\* ----------------------------------------- InputHandler on its own (SpecInput)

\* The state right after InputHandler::new() returned Ok.
InitInput ==
    /\ config \in {c \in GameConfigs :
                      /\ c.target_fps = 1 /\ c.max_frame_time = 1
                      /\ c.input_strategy.kind = "NonBlocking"
                      /\ c.debug_mode = FALSE /\ c.vsync = TRUE
                      /\ c.screen_size = LoopScreenSize}
    /\ pc = "drain"
    /\ raw_mode = TRUE /\ handler = "alive" /\ renderer = "none"
    /\ disable_calls = 0 /\ disable_failed = FALSE
    /\ queue = <<>> /\ pushed = <<>> /\ expected = <<>> /\ drained = <<>>
    /\ prev_drained = <<>>
    /\ ndrains = 0 /\ next_ev = 1 /\ dispatched = <<>>
    /\ poll_waited = 0 /\ io_failed = FALSE /\ poll_ret = "none"
    /\ lag_time = 0 /\ lag_in = 0 /\ raw_elapsed = 0 /\ elapsed = 0
    /\ updates = 0 /\ delta = NoDelta /\ frame_calls = <<>> /\ iterated = FALSE
    /\ result = "none"
    /\ NoRenderer

\* The owner of the handler calls poll again, after a poll or after a drain
\* (a further drain needs no step: Drain is enabled whenever poll has returned).
InputCallPoll ==
    /\ pc \in {"drain", "dispatch"}
    /\ UNCHANGED rendVars
    /\ pc' = "poll"
    /\ poll_waited' = 0 /\ io_failed' = FALSE /\ poll_ret' = "none"
    /\ prev_drained' = <<>>
    /\ UNCHANGED <<cfgVars, result, termVars, queue, pushed, expected, drained,
                   ndrains, dispVars, timeVars, frameVars>>

\* The owner of the handler calls drain again right after a drain.
InputCallDrain ==
    /\ pc = "dispatch"
    /\ UNCHANGED rendVars
    /\ pc' = "drain"
    /\ UNCHANGED <<cfgVars, result, termVars, queueVars, dispVars, pollVars,
                   timeVars, frameVars>>

NextInput ==
    \/ InputCallPoll
    \/ InputCallDrain
    \/ PollCheck
    \/ PollRead
    \/ Drain

SpecInput == InitInput /\ [][NextInput]_vars

\* --------------------------------------- BasicRenderer on its own (SpecRenderer)
\* An owner constructs a BasicRenderer of some screen size and then calls
\* clear, draw_cell, draw_str and flush on it in any order.  Each call is one
\* step, which leaves its record in last; the owner then takes the result
\* (RendererReturn) and is free to make the next call.
MaxTextLen == 2

Texts == UNION {[1..n -> Chars] : n \in 0..MaxTextLen}

\* Coordinates passed along an axis of extent n: the first and the last
\* one in bounds and the first one out of bounds; draw_str is also called
\* with the largest u16 as x.
Coords(n) == {v \in {0, n - 1, n} : v >= 0}
StrCoords(n) == Coords(n) \cup {U16Modulus - 1}

\* The build only matters to a call whose additions overflow.
OverflowBuilds(x, n) == IF x + n > U16Modulus THEN Builds ELSE {"release"}

InitRenderer ==
    /\ Idle
    /\ config \in {c \in GameConfigs :
                      /\ c.target_fps = 1 /\ c.max_frame_time = 1
                      /\ c.input_strategy.kind = "NonBlocking"
                      /\ c.debug_mode = FALSE /\ c.vsync = TRUE}
    /\ pc = "r_new"

RendererNew ==
    /\ pc = "r_new"
    /\ UNCHANGED drawn
    /\ \/ \E build \in Builds :
            LET r == new(config.screen_size[1], config.screen_size[2], build)
            IN  /\ alt_screen' = TRUE
                /\ last' = Call("new", r.ret, 0, 0, Blank, <<>>, <<>>)
                /\ IF r.ret = "Ok"
                   THEN /\ renderer' = "alive"
                        /\ width' = config.screen_size[1]
                        /\ height' = config.screen_size[2]
                        /\ back_buffer' = r.back
                        /\ front_buffer' = r.front
                        /\ pc' = "r_done"
                   ELSE /\ pc' = "r_panicked"
                        /\ UNCHANGED <<renderer, width, height, back_buffer,
                                       front_buffer>>
                /\ UNCHANGED <<result, term>>
       \/ /\ result' = "ErrInput"
          /\ pc' = "r_failed"
          /\ alt_screen' \in BOOLEAN
          /\ last' = Call("new", "ErrInput", 0, 0, Blank, <<>>, <<>>)
          /\ UNCHANGED <<renderer, bufVars>>
    /\ UNCHANGED <<cfgVars, raw_mode, handler, disable_calls, disable_failed,
                   queueVars, dispVars, pollVars, timeVars, frameVars>>

RendererClear ==
    /\ pc = "r_idle"
    /\ UNCHANGED drawn
    /\ LET r == clear(back_buffer, front_buffer)
       IN  /\ back_buffer' = r.back
           /\ front_buffer' = r.front
           /\ last' = Call("clear", r.ret, 0, 0, Blank, <<>>, <<>>)
    /\ pc' = "r_done"
    /\ UNCHANGED <<width, height, term, alt_screen>>
    /\ UNCHANGED <<cfgVars, result, termVars, queueVars, dispVars, pollVars,
                   timeVars, frameVars>>

RendererDrawCell ==
    /\ pc = "r_idle"
    /\ UNCHANGED drawn
    /\ \E x \in Coords(width), y \in Coords(height), cell \in DrawCells :
        LET r == draw_cell(width, height, back_buffer, x, y, cell)
        IN  /\ back_buffer' = r.back
            /\ last' = Call("draw_cell", r.ret, x, y, cell, <<>>, <<>>)
            /\ pc' = IF r.ret = "panic" THEN "r_panicked" ELSE "r_done"
    /\ UNCHANGED <<width, height, front_buffer, term, alt_screen>>
    /\ UNCHANGED <<cfgVars, result, termVars, queueVars, dispVars, pollVars,
                   timeVars, frameVars>>

RendererDrawStr ==
    /\ pc = "r_idle"
    /\ UNCHANGED drawn
    /\ \E x \in StrCoords(width), y \in Coords(height), text \in Texts,
          c \in StrColors :
        \E build \in OverflowBuilds(x, Len(text)) :
        LET r == draw_str(width, height, back_buffer, x, y, text, c[1], c[2],
                          build)
        IN  /\ back_buffer' = r.back
            /\ last' = Call("draw_str", r.ret, x, y, Cell(" ", c[1], c[2]),
                            text, <<>>)
            /\ pc' = IF r.ret = "panic" THEN "r_panicked" ELSE "r_done"
    /\ UNCHANGED <<width, height, front_buffer, term, alt_screen>>
    /\ UNCHANGED <<cfgVars, result, termVars, queueVars, dispVars, pollVars,
                   timeVars, frameVars>>

RendererFlush_KeepsFront ==
    /\ pc = "r_idle"
    /\ UNCHANGED drawn
    /\ \E fail \in FlushFailPoints(back_buffer, front_buffer) :
        LET r == flush(width, back_buffer, front_buffer, term, fail)
        IN  /\ front_buffer' = front_buffer
            /\ term' = r.term
            /\ last' = Call("flush", r.ret, 0, 0, Blank, <<>>, r.emitted)
    /\ pc' = "r_done"
    /\ UNCHANGED <<width, height, back_buffer, alt_screen>>
    /\ UNCHANGED <<cfgVars, result, termVars, queueVars, dispVars, pollVars,
                   timeVars, frameVars>>

RendererFlush ==
    /\ pc = "r_idle"
    /\ UNCHANGED drawn
    /\ \E fail \in FlushFailPoints(back_buffer, front_buffer) :
        LET r == flush(width, back_buffer, front_buffer, term, fail)
        IN  /\ front_buffer' = r.front
            /\ term' = r.term
            /\ last' = Call("flush", r.ret, 0, 0, Blank, <<>>, r.emitted)
    /\ pc' = "r_done"
    /\ UNCHANGED <<width, height, back_buffer, alt_screen>>
    /\ UNCHANGED <<cfgVars, result, termVars, queueVars, dispVars, pollVars,
                   timeVars, frameVars>>

\* Buffer indices passed to coordinates: the first one, the last one of the
\* buffer and of the screen, and the first one past each.
BufferIndices ==
    {i \in {0, len(back_buffer) - 1, len(back_buffer), width * height - 1,
            width * height} : i >= 0}

RendererIndex ==
    /\ pc = "r_idle"
    /\ \E x \in Coords(width), y \in Coords(height) :
        last' = Call("index", index(width, height, x, y).ret, x, y, Blank,
                     <<>>, <<>>)
    /\ pc' = "r_done"
    /\ UNCHANGED <<bufVars, alt_screen, drawn>>
    /\ UNCHANGED <<cfgVars, result, termVars, queueVars, dispVars, pollVars,
                   timeVars, frameVars>>

RendererCoordinates ==
    /\ pc = "r_idle"
    /\ \E i \in BufferIndices :
        last' = Call("coordinates", coordinates(width, back_buffer, i).ret,
                     i, 0, Blank, <<>>, <<>>)
    /\ pc' = "r_done"
    /\ UNCHANGED <<bufVars, alt_screen, drawn>>
    /\ UNCHANGED <<cfgVars, result, termVars, queueVars, dispVars, pollVars,
                   timeVars, frameVars>>

RendererReturn ==
    /\ pc = "r_done"
    /\ UNCHANGED drawn
    /\ pc' = "r_idle"
    /\ last' = [NoCall EXCEPT
                   !.after_flush = (last.op = "flush" /\ last.ret = "Ok"),
                   !.after_failed = IF last.op = "flush" /\ last.ret # "Ok"
                                    THEN Indices(last.emitted)
                                    ELSE NotFailed]
    /\ UNCHANGED <<bufVars, alt_screen>>
    /\ UNCHANGED <<cfgVars, result, termVars, queueVars, dispVars, pollVars,
                   timeVars, frameVars>>

NextRenderer ==
    \/ RendererNew
    \/ RendererReturn
    \/ RendererClear
    \/ RendererDrawCell
    \/ RendererDrawStr
    \/ RendererFlush
    \/ RendererIndex
    \/ RendererCoordinates

SpecRenderer == InitRenderer /\ [][NextRenderer]_vars

\* ------------------------------------------- the frame phase on its own (SpecFrame)
\* The last three statements of an iteration of run, with a state whose
\* render draws any cells it likes: clear, state.render, flush, again and
\* again until a flush fails.
InitFrame ==
    /\ Idle
    /\ config \in {c \in GameConfigs :
                      /\ c.target_fps = 1 /\ c.max_frame_time = 1
                      /\ c.input_strategy.kind = "NonBlocking"
                      /\ c.debug_mode = FALSE /\ c.vsync = TRUE}
    /\ pc = "f_new"

FrameNew ==
    /\ pc = "f_new"
    /\ \/ \E build \in Builds :
            LET r == new(config.screen_size[1], config.screen_size[2], build)
            IN  /\ alt_screen' = TRUE
                /\ IF r.ret = "Ok"
                   THEN /\ renderer' = "alive"
                        /\ width' = config.screen_size[1]
                        /\ height' = config.screen_size[2]
                        /\ back_buffer' = r.back
                        /\ front_buffer' = r.front
                        /\ pc' = "f_clear"
                   ELSE /\ pc' = "f_panicked"
                        /\ UNCHANGED <<renderer, width, height, back_buffer,
                                       front_buffer>>
                /\ UNCHANGED result
       \/ /\ result' = "ErrInput"
          /\ pc' = "f_failed"
          /\ alt_screen' \in BOOLEAN
          /\ UNCHANGED <<renderer, width, height, back_buffer, front_buffer>>
    /\ UNCHANGED <<term, last, drawn>>
    /\ UNCHANGED <<cfgVars, raw_mode, handler, disable_calls, disable_failed,
                   queueVars, dispVars, pollVars, timeVars, frameVars>>

FrameClear_KeepsBack ==
    /\ pc = "f_clear"
    /\ drawn' = [cur |-> <<>>, prev |-> drawn.cur]
    /\ frame_calls' = <<"clear">>
    /\ pc' = "f_render"
    /\ UNCHANGED <<width, height, back_buffer, front_buffer, term, alt_screen,
                   last>>
    /\ UNCHANGED <<cfgVars, result, termVars, queueVars, dispVars, pollVars,
                   timeVars, iterated>>

\* self.renderer.clear()?
FrameClear ==
    /\ pc = "f_clear"
    /\ LET r == clear(back_buffer, front_buffer)
       IN  back_buffer' = r.back /\ front_buffer' = r.front
    /\ drawn' = [cur |-> <<>>, prev |-> drawn.cur]
    /\ frame_calls' = <<"clear">>
    /\ pc' = "f_render"
    /\ UNCHANGED <<width, height, term, alt_screen, last>>
    /\ UNCHANGED <<cfgVars, result, termVars, queueVars, dispVars, pollVars,
                   timeVars, iterated>>

\* One draw_cell call made by state.render; the state ignores an Err.
FrameDraw ==
    /\ pc = "f_render"
    /\ \E x \in Coords(width), y \in Coords(height), cell \in DrawCells :
        LET r == draw_cell(width, height, back_buffer, x, y, cell)
        IN  /\ back_buffer' = r.back
            /\ drawn' = IF r.ret = "Ok"
                        THEN [drawn EXCEPT !.cur = TermPut(drawn.cur, x, y, cell)]
                        ELSE drawn
            /\ pc' = IF r.ret = "panic" THEN "f_panicked" ELSE pc
    /\ UNCHANGED <<width, height, front_buffer, term, alt_screen, last>>
    /\ UNCHANGED <<cfgVars, result, termVars, queueVars, dispVars, pollVars,
                   timeVars, frameVars>>

\* state.render returns.
FrameRendered ==
    /\ pc = "f_render"
    /\ frame_calls' = Append(frame_calls, "render")
    /\ pc' = "f_flush"
    /\ UNCHANGED rendVars
    /\ UNCHANGED <<cfgVars, result, termVars, queueVars, dispVars, pollVars,
                   timeVars, iterated>>

\* self.renderer.flush()?
FrameFlush ==
    /\ pc = "f_flush"
    /\ \E fail \in FlushFailPoints(back_buffer, front_buffer) :
        LET r == flush(width, back_buffer, front_buffer, term, fail)
        IN  /\ front_buffer' = r.front
            /\ term' = r.term
            /\ IF r.ret = "Ok"
               THEN pc' = "f_clear" /\ iterated' = TRUE /\ UNCHANGED result
               ELSE pc' = "f_returned" /\ result' = r.ret /\ UNCHANGED iterated
    /\ frame_calls' = Append(frame_calls, "flush")
    /\ UNCHANGED <<width, height, back_buffer, alt_screen, last, drawn>>
    /\ UNCHANGED <<cfgVars, termVars, queueVars, dispVars, pollVars, timeVars>>

NextFrame ==
    \/ FrameNew
    \/ FrameClear
    \/ FrameDraw
    \/ FrameRendered
    \/ FrameFlush

SpecFrame == InitFrame /\ [][NextFrame]_vars

\* ------------------------------------------------------------------ claims

PastCatchUp == pc \in {"clear", "render", "flush"}

\* C1: in every iteration the number of state.update calls is
\* floor((min(e, max_frame_time) + l) / frame_duration) and the lag left over is
\* the remainder, for measured elapsed time e and carried lag l < frame_duration.
C1_UpdatesAreQuotientLagIsRemainder ==
    PastCatchUp =>
        LET fd == frame_duration(config)
            e == IF raw_elapsed < config.max_frame_time
                 THEN raw_elapsed ELSE config.max_frame_time
        IN  /\ fd > 0
            /\ lag_in < fd
            /\ updates = (e + lag_in) \div fd
            /\ lag_time = (e + lag_in) % fd

\* An iteration whose accumulated lag was exactly two or more whole frames,
\* part of it carried in from the iteration before.
C1_Witness ==
    /\ pc = "clear" /\ lag_in > 0 /\ updates >= 2 /\ lag_time = 0
    /\ lag_in + elapsed = updates * frame_duration(config)

\* C2: once control is past the catch-up loop, and from then on until the next
\* sampling of the clock, 0 <= lag < frame_duration.
C2_LagBelowFrameDuration ==
    (PastCatchUp
     \/ (iterated /\ pc \in {"poll", "poll_read", "drain", "dispatch", "sample"}))
        => (0 <= lag_time /\ lag_time < frame_duration(config))

\* The second poll is reached with a positive lag, the largest one possible.
C2_Witness ==
    /\ pc = "poll" /\ iterated
    /\ lag_time > 0 /\ lag_time = frame_duration(config) - 1

\* C3: an elapsed time above max_frame_time counts as max_frame_time (same
\* updates, same lag left); an elapsed time up to max_frame_time is added to the
\* lag as measured.
C3_Clamping ==
    LET max == config.max_frame_time IN
    /\ (pc = "catchup" /\ updates = 0 /\ raw_elapsed > max)
          => lag_time = lag_in + max
    /\ (pc = "catchup" /\ updates = 0 /\ raw_elapsed <= max)
          => lag_time = lag_in + raw_elapsed
    /\ (PastCatchUp /\ raw_elapsed > max)
          => /\ updates = (lag_in + max) \div frame_duration(config)
             /\ lag_time = (lag_in + max) % frame_duration(config)

\* An iteration that measured two ticks more than the cap and ran updates.
C3_Witness ==
    /\ pc = "clear" /\ raw_elapsed = config.max_frame_time + 2 /\ updates >= 1

IsPrefix(s, t) == Len(s) <= Len(t) /\ s = SubSeq(t, 1, Len(s))

Returned == pc \in {"returned", "dropped"}

\* C4: events reach on_event in arrival order; when on_event returns true for
\* an event, everything queued before it has been dispatched, nothing queued
\* after it is, and run returns Ok at once: no update, clear, render or flush.
C4_DispatchInOrderExitAtOnce ==
    /\ IsPrefix(dispatched, expected)
    /\ \A i \in 1..(Len(dispatched) - 1) : ~on_event(dispatched[i])
    /\ (dispatched # <<>> /\ on_event(dispatched[Len(dispatched)]))
          => (result = "Ok" /\ Returned)
    /\ result = "Ok"
          => /\ dispatched # <<>> /\ on_event(dispatched[Len(dispatched)])
             /\ updates = 0 /\ frame_calls = <<>>

\* Events [a, Esc, Enter] arrived in one poll; run returned after Esc.
C4_Witness ==
    /\ result = "Ok" /\ pc = "returned"
    /\ expected = <<"a", "Esc", "Enter">> /\ dispatched = <<"a", "Esc">>

\* C5 as stated: every drained event has been offered to on_event, exactly
\* once and in order, by the time run returns.
C5_AllDrainedDelivered ==
    pc = "returned" => dispatched = drained

\* C5 as amended: the events of a drained batch are offered in order, each at
\* most once, up to and including the first one for which on_event returns
\* true; the rest of that batch is never delivered.  A batch without an exit
\* request is delivered in full before the iteration goes on.
C5_DeliveredUpToFirstExit ==
    /\ pc = "dispatch" => dispatched = SubSeq(drained, 1, next_ev - 1)
    /\ pc \in {"sample", "catchup", "clear", "render", "flush"}
          => dispatched = drained
    /\ result = "Ok"
          => \E k \in 1..Len(drained) :
                /\ on_event(drained[k])
                /\ \A j \in 1..(k - 1) : ~on_event(drained[j])
                /\ dispatched = SubSeq(drained, 1, k)

\* The first of three drained events requested exit: two are left undelivered.
C5_Witness ==
    /\ result = "Ok" /\ pc = "returned"
    /\ Len(drained) = 3 /\ Len(dispatched) = 1

\* C6: drain returns the queued events, each once, in the order poll appended
\* them, and leaves the queue empty; a drain right after a drain returns the
\* empty sequence.
C6_DrainFifoAndEmpties ==
    /\ ndrains >= 1 => queue = <<>>
    /\ ndrains = 1 => drained = expected
    /\ ndrains = 2 => drained = <<>>

\* Three different events were drained in arrival order, then drain was called
\* again with no poll in between.
C6_Witness ==
    /\ pc = "dispatch" /\ ndrains = 2 /\ drained = <<>>
    /\ prev_drained = <<"Enter", "a", "Esc">>

\* C7 as stated: one call of poll(timeout) waits on the backend for at most
\* `timeout` in total.
C7_PollWaitsAtMostTimeout ==
    poll_waited <= timeout(config.input_strategy)

\* C8 as stated: whenever the backend failed during a poll (the ready-check or
\* the read), poll fails: it never returns Ok after such a failure.  Either
\* error kind the engine has for I/O is accepted here.
C8_PollFailsOnBackendFailure ==
    (io_failed /\ poll_ret # "none") => poll_ret \in {"ErrInput", "ErrIo"}

Over == pc \in {"failed", "dropped"}

\* C9 as stated: raw mode is on while an InputHandler exists and off after
\* every exit path (new failed, or run returned and the loop was dropped).
C9_RawModeOffAfterRelease ==
    /\ handler = "alive" => raw_mode
    /\ Over => ~raw_mode

\* C9 as amended: raw mode is on while an InputHandler exists; on every exit
\* path the handler, if one was built, has been released with exactly one
\* disable_raw_mode call, and raw mode is off unless that call itself failed.
C9_RawModeReleasedOnEveryPath ==
    /\ handler = "alive" => raw_mode
    /\ Over => /\ handler # "alive"
               /\ handler = "none" => (~raw_mode /\ disable_calls = 0)
               /\ handler = "dropped"
                     => (disable_calls = 1 /\ (raw_mode <=> disable_failed))

\* EventLoop::new failed at the renderer; the handler built before it was
\* released and raw mode is off again.
C9_Witness ==
    /\ pc = "failed" /\ result = "ErrInput"
    /\ handler = "dropped" /\ renderer = "none" /\ ~raw_mode

\* C10: validate returns a configuration error exactly when target_fps = 0 or
\* max_frame_time = 0, whatever the other fields are.
C10_ValidateErrIffZero ==
    pc = "cfg_done" =>
        /\ result \in {"Ok", "ErrConfig"}
        /\ (result = "ErrConfig")
              <=> (config.target_fps = 0 \/ config.max_frame_time = 0)

\* A zero max_frame_time is rejected with a positive frame rate and the other
\* fields away from their defaults.
C10_Witness ==
    /\ pc = "cfg_done" /\ result = "ErrConfig"
    /\ config.target_fps > 0 /\ config.max_frame_time = 0
    /\ config.debug_mode /\ ~config.vsync
    /\ config.input_strategy.kind = "Timeout"

\* C11: with target_fps = 0 or max_frame_time = 0, EventLoop::new only
\* validates and fails with the configuration error: raw mode is never
\* enabled (and so never disabled), no handler or renderer is built, the
\* alternate screen is not entered, no buffer is allocated, and no event is
\* dispatched, no update applied and no frame drawn.
C11_InvalidConfigAcquiresNothing ==
    validate(config) # "Ok" =>
        /\ pc \in {"new_validate", "failed"}
        /\ pc = "failed" => result = "ErrConfig"
        /\ pc = "new_validate" => result = "none"
        /\ ~raw_mode /\ disable_calls = 0
        /\ handler = "none" /\ renderer = "none"
        /\ ~alt_screen
        /\ back_buffer = <<>> /\ front_buffer = <<>> /\ term = <<>>
        /\ dispatched = <<>> /\ updates = 0 /\ frame_calls = <<>>
        /\ ~iterated

\* EventLoop::new has failed on a configuration whose only fault is a zero
\* max_frame_time.
C11_Witness ==
    /\ pc = "failed" /\ result = "ErrConfig"
    /\ config.target_fps > 0 /\ config.max_frame_time = 0

\* The indices at which the two buffers hold different cells.
Differing(back, front) == {i \in DOMAIN back : back[i] # front[i]}

\* C12: a flush that returns Ok emits one cell-draw output, carrying the
\* back buffer's cell and the coordinates of its index, for each index at
\* which the buffers differed before the call (in whatever field) and none
\* for any other index; afterwards the front buffer equals the back buffer
\* and the back buffer is as it was.
C12_FlushEmitsExactlyTheDiff ==
    [][(pc = "r_idle" /\ last'.op = "flush" /\ last'.ret = "Ok") =>
          LET em == last'.emitted
          IN  /\ {em[k].index : k \in 1..Len(em)}
                     = Differing(back_buffer, front_buffer)
              /\ Len(em) = Cardinality(Differing(back_buffer, front_buffer))
              /\ \A k \in 1..Len(em) :
                     /\ em[k].cell = back_buffer[em[k].index]
                     /\ em[k].index = em[k].y * width + em[k].x
                     /\ em[k].x < width /\ em[k].y < height
              /\ front_buffer' = back_buffer
              /\ back_buffer' = back_buffer]_vars

\* A successful flush on a two-cell screen drew one cell, which differs from
\* the blank cell in the background only, and left alone the other cell,
\* which is not blank.
C12_Witness ==
    /\ pc = "r_done" /\ last.op = "flush" /\ last.ret = "Ok"
    /\ len(back_buffer) = 2
    /\ Len(last.emitted) = 1
    /\ last.emitted[1].cell = Cell(" ", "Reset", "Blue")
    /\ \E i \in DOMAIN back_buffer :
          i # last.emitted[1].index /\ back_buffer[i] # Blank

\* C13: a flush that directly follows a successful flush emits no cell-draw
\* output and leaves both buffers as they were.
C13_SecondFlushEmitsNothing ==
    [][(pc = "r_idle" /\ last.after_flush /\ last'.op = "flush") =>
          /\ last'.emitted = <<>>
          /\ front_buffer' = front_buffer
          /\ back_buffer' = back_buffer]_vars

\* A second flush in a row has returned Ok with nothing emitted, on buffers
\* that hold a drawn cell.
C13_Witness ==
    /\ pc = "r_done" /\ last.op = "flush" /\ last.ret = "Ok"
    /\ last.after_flush
    /\ last.emitted = <<>>
    /\ \E i \in DOMAIN back_buffer : back_buffer[i] # Blank

\* C16: clear returns Ok, makes every cell of the back buffer blank and
\* leaves the front buffer, the width and the height as they were.
C16_ClearBlanksBackOnly ==
    [][(pc = "r_idle" /\ last'.op = "clear") =>
          /\ last'.ret = "Ok"
          /\ DOMAIN back_buffer' = DOMAIN back_buffer
          /\ \A i \in DOMAIN back_buffer' : back_buffer'[i] = Blank
          /\ front_buffer' = front_buffer
          /\ width' = width /\ height' = height]_vars

\* clear has returned on a renderer whose front buffer holds a drawn cell.
C16_Witness ==
    /\ pc = "r_done" /\ last.op = "clear" /\ last.ret = "Ok"
    /\ \A i \in DOMAIN back_buffer : back_buffer[i] = Blank
    /\ \E i \in DOMAIN front_buffer : front_buffer[i] # Blank

\* C20: whenever no renderer operation is running, every cell of the front
\* buffer is the cell the terminal shows at the coordinates of its index,
\* and the terminal shows nothing but blanks elsewhere.
C20_FrontIsWhatTheTerminalShows ==
    /\ \A i \in DOMAIN front_buffer :
          front_buffer[i] = TermAt(term, i % width, i \div width)
    /\ \A p \in DOMAIN term :
          /\ p[1] < width /\ p[2] < height
          /\ p[2] * width + p[1] \in DOMAIN front_buffer

\* A flush failed after drawing one of two differing cells: the front
\* buffer has taken the drawn cell only.
C20_Witness ==
    /\ pc = "r_done" /\ last.op = "flush" /\ last.ret = "ErrRender"
    /\ Len(last.emitted) = 1
    /\ Cardinality(Differing(back_buffer, front_buffer)) = 1
    /\ front_buffer[last.emitted[1].index] # Blank

\* C14 as stated: draw_cell at an in-bounds (x, y) returns Ok, sets
\* back[y * width + x] to the cell and changes nothing else in either
\* buffer; at any other (x, y) it returns the bounds error and changes
\* neither buffer.
C14_DrawCellSetsOrRejects ==
    [][(pc = "r_idle" /\ last'.op = "draw_cell") =>
          IF last'.x < width /\ last'.y < height
          THEN /\ last'.ret = "Ok"
               /\ back_buffer'
                    = [back_buffer EXCEPT ![last'.y * width + last'.x] = last'.cell]
               /\ front_buffer' = front_buffer
          ELSE /\ last'.ret = "ErrRender"
               /\ back_buffer' = back_buffer
               /\ front_buffer' = front_buffer]_vars

\* The back buffer after a draw_str that skips the out-of-bounds cells and
\* writes character i (from 0) of the text at (x + i, y).
DrawStrSkipping(back, x, y, text, fg, bg) ==
    [j \in DOMAIN back |->
        IF \E i \in 0..(Len(text) - 1) :
              x + i < width /\ y < height /\ y * width + x + i = j
        THEN Cell(text[j - (y * width + x) + 1], fg, bg)
        ELSE back[j]]

\* C15 as stated, on a renderer whose buffers have width * height cells:
\* draw_str returns Ok whatever cells are out of bounds, and has written
\* exactly the characters whose cells are in bounds.
C15_DrawStrSkipsOutOfBounds ==
    [][(/\ pc = "r_idle" /\ last'.op = "draw_str"
        /\ len(back_buffer) = width * height) =>
          /\ last'.ret = "Ok"
          /\ back_buffer' = DrawStrSkipping(back_buffer, last'.x, last'.y,
                                            last'.text, last'.cell.fg,
                                            last'.cell.bg)
          /\ front_buffer' = front_buffer]_vars

\* C17 as stated: a constructed renderer's buffers have width * height cells
\* each, blank right after construction, at all times.
C17_BuffersHoldWidthTimesHeight ==
    renderer = "alive" =>
        /\ len(back_buffer) = width * height
        /\ len(front_buffer) = width * height
        /\ (pc = "r_done" /\ last.op = "new") =>
              \A i \in DOMAIN back_buffer :
                  back_buffer[i] = Blank /\ front_buffer[i] = Blank

\* C18: an Io or Render error appears only as the outcome of a poll or of a
\* flush, run returns it in that very step, and nothing runs afterwards but
\* the drop of the loop; the step that returns the error leaves the events
\* dispatched, the updates applied and the lag as they were.
C18_IoErrorEndsRun ==
    /\ [](result \in {"ErrIo", "ErrRender"} => Returned)
    /\ [][(pc = "poll" /\ poll_ret' = "ErrIo") => result' = "ErrIo"]_vars
    /\ [][(result = "none" /\ result' \in {"ErrIo", "ErrRender"}) =>
              /\ \/ pc = "poll" /\ result' = "ErrIo"
                 \/ pc = "flush" /\ result' = "ErrRender"
              /\ pc' = "returned"
              /\ dispatched' = dispatched
              /\ updates' = updates
              /\ lag_time' = lag_time
              /\ iterated' = iterated]_vars
    /\ [][Returned =>
              /\ pc' \in {"returned", "dropped"}
              /\ UNCHANGED <<result, dispatched, updates, lag_time, iterated>>]_vars

\* run has returned a flush error in a later iteration, in which events
\* were dispatched and updates applied.
C18_Witness ==
    /\ pc = "returned" /\ result = "ErrRender"
    /\ iterated
    /\ dispatched # <<>> /\ updates > 0

\* The steps of one iteration after event dispatch.
AfterDispatch == pc \in {"sample", "catchup", "clear", "render"}

\* C19: run has returned Ok only if the last event dispatched made on_event
\* return true; run returns only from event dispatch (with Ok), from a
\* failed poll or from a failed flush, so sampling, updates, clear and
\* render always lead on to the next step of the iteration.
C19_OkOnlyOnExitRequest ==
    /\ [](result = "Ok" =>
            /\ Returned
            /\ dispatched # <<>>
            /\ on_event(dispatched[Len(dispatched)]))
    /\ [][(pc # "returned" /\ pc' = "returned") =>
              \/ pc = "dispatch" /\ result' = "Ok"
              \/ pc = "poll" /\ result' = "ErrIo"
              \/ pc = "flush" /\ result' = "ErrRender"]_vars
    /\ [][AfterDispatch =>
              /\ pc' \in {"sample", "catchup", "clear", "render", "flush"}
              /\ result' = result]_vars

\* run has returned Ok in a later iteration on an exit request that followed
\* another event.
C19_Witness ==
    /\ pc = "returned" /\ result = "Ok"
    /\ iterated
    /\ Len(dispatched) = 2 /\ on_event(dispatched[2])

\* C21 as stated: when the terminal setup of BasicRenderer::new fails, the
\* error it returns is of the render category.
C21_SetupFailureIsRenderError ==
    (last.op = "new" /\ last.ret \notin {"Ok", "panic"}) =>
        (last.ret = "ErrRender" /\ result = "ErrRender")

\* The phase that may follow each phase of an iteration of run.
PhaseSuccessors(phase) ==
    CASE phase = "poll" -> {"poll", "poll_read", "drain", "returned"}
      [] phase = "poll_read" -> {"poll"}
      [] phase = "drain" -> {"dispatch"}
      [] phase = "dispatch" -> {"dispatch", "sample", "returned"}
      [] phase = "sample" -> {"catchup"}
      [] phase = "catchup" -> {"catchup", "clear"}
      [] phase = "clear" -> {"render"}
      [] phase = "render" -> {"flush"}
      [] phase = "flush" -> {"poll", "returned"}
      [] OTHER -> {"new_validate", "new_input", "new_renderer", "ready",
                   "poll", "failed", "panicked", "returned", "dropped"}

\* C22: the phases of an iteration follow one another in the order poll,
\* drain, dispatch, sample, updates, clear, render, flush; events are
\* dispatched only in the dispatch phase, lag grows only at the sample and
\* updates are applied only in the catch-up phase; when the flush is
\* reached exactly one clear and one render were made, in that order, and
\* the next poll starts only from a flush that returned Ok.
C22_PhasesInStrictOrder ==
    /\ [][pc' \in PhaseSuccessors(pc)]_vars
    /\ [][(pc' = "poll" /\ pc # "poll") => pc \in {"ready", "poll_read", "flush"}]_vars
    /\ [][(pc = "flush" /\ pc' = "poll") => result' = "none"]_vars
    /\ [][Len(dispatched') > Len(dispatched) => pc = "dispatch"]_vars
    /\ [][lag_time' > lag_time => pc = "sample"]_vars
    /\ [][updates' > updates => pc = "catchup"]_vars
    /\ [](pc \in {"poll", "poll_read", "drain", "dispatch", "sample", "catchup",
                   "clear"} => frame_calls = <<>>)
    /\ [](pc \in {"poll", "poll_read", "drain"} => (dispatched = <<>> /\ updates = 0))
    /\ [](pc = "dispatch" => updates = 0)
    /\ [](pc = "render" => frame_calls = <<"clear">>)
    /\ [](pc = "flush" => frame_calls = <<"clear", "render">>)

\* A later iteration has reached its flush after dispatching an event and
\* applying two updates.
C22_Witness ==
    /\ pc = "flush" /\ iterated
    /\ frame_calls = <<"clear", "render">>
    /\ dispatched # <<>> /\ updates = 2

\* C23 as stated: the updates of one iteration number at most
\* floor((max_frame_time + frame_duration) / frame_duration), whatever was
\* measured and whatever lag was carried in; so whenever the catch-up loop
\* is about to apply one more update, that update is still within the bound.
C23_UpdatesBoundedByConfig ==
    LET fd == frame_duration(config) IN
    /\ (pc = "catchup" /\ lag_time >= fd) =>
          (fd > 0 /\ updates + 1 <= (config.max_frame_time + fd) \div fd)
    /\ PastCatchUp =>
          (fd > 0 /\ updates <= (config.max_frame_time + fd) \div fd)

\* C27 as stated: with a configuration that passed validation the catch-up
\* loop runs on a strictly positive frame_duration, the lag is what was
\* accumulated less frame_duration per update made, never below zero, and
\* strictly less than it was once an update has been made.
C27_CatchUpTerminates ==
    LET fd == frame_duration(config) IN
    pc = "catchup" =>
        /\ validate(config) = "Ok"
        /\ fd > 0
        /\ lag_time >= 0
        /\ lag_time = lag_in + elapsed - updates * fd
        /\ updates > 0 => lag_time < lag_in + elapsed

\* C24: every update receives frame_duration, in seconds, as its delta;
\* the lag is carried unchanged from the end of one iteration to the
\* sampling of the next, where the clamped elapsed time is added to it, and
\* at every point of the catch-up and after it the lag carried in plus the
\* clamped elapsed time equals frame_duration times the updates made plus
\* the lag left.  Summed over the iterations: the clamped elapsed times
\* added so far are frame_duration times all the updates plus the current
\* lag, and the lag is never negative.
C24_TimeConservation ==
    /\ [](updates > 0 => delta = as_secs_f32(frame_duration(config)))
    /\ [](lag_time >= 0)
    /\ []((pc = "catchup" \/ PastCatchUp) =>
            lag_in + elapsed = updates * frame_duration(config) + lag_time)
    /\ [][pc = "sample" =>
              (lag_in' = lag_time /\ lag_time' = lag_time + elapsed')]_vars
    /\ [][pc \notin {"ready", "sample", "catchup"} => lag_time' = lag_time]_vars
    /\ [][updates' = updates + 1 =>
              lag_time' = lag_time - frame_duration(config)]_vars

\* A later iteration carried lag in, added a clamped elapsed time, and made
\* an update that left lag behind.
C24_Witness ==
    /\ pc = "clear" /\ iterated
    /\ lag_in > 0 /\ raw_elapsed > elapsed
    /\ updates >= 1 /\ lag_time > 0
    /\ delta = as_secs_f32(frame_duration(config))

\* C25: when the flush of an iteration has returned Ok, the terminal shows
\* the cells the state drew in that iteration's render and blanks
\* everywhere else, whatever was drawn in the iterations before.
C25_TerminalShowsThisFrameOnly ==
    (pc = "f_clear" /\ iterated) =>
        /\ term = drawn.cur
        /\ \A p \in DOMAIN drawn.prev \ DOMAIN drawn.cur :
              TermAt(term, p[1], p[2]) = Blank

\* An iteration has completed that drew one cell and left undrawn a cell
\* that the iteration before it had drawn.
C25_Witness ==
    /\ pc = "f_clear" /\ iterated
    /\ drawn.cur # <<>>
    /\ \E p \in DOMAIN drawn.prev : p \notin DOMAIN drawn.cur

\* An event that makes on_event return true was read by poll in this
\* iteration.
ExitQueued ==
    \/ \E i \in 1..Len(pushed) : on_event(pushed[i])
    \/ \E i \in 1..Len(expected) : on_event(expected[i])

InPoll == pc \in {"poll", "poll_read"}

\* C26 as stated: once poll has returned with an exit-requesting event in
\* the queue, the iteration only drains and dispatches and then run returns
\* Ok; no update, clear, render or flush is made.
C26_QueuedExitReturnsOk ==
    (ExitQueued /\ ~InPoll) =>
        /\ pc \in {"drain", "dispatch", "returned", "dropped"}
        /\ Returned => result = "Ok"
        /\ updates = 0 /\ frame_calls = <<>>

\* C26 as amended: the same when poll returned Ok; when poll itself fails
\* after queueing the event, run returns that error instead, the event is
\* never dispatched, and still no update, clear, render or flush is made.
C26_QueuedExitEndsIteration ==
    (ExitQueued /\ ~InPoll) =>
        /\ pc \in {"drain", "dispatch", "returned", "dropped"}
        /\ Returned =>
              \/ /\ result = "Ok"
                 /\ dispatched # <<>>
                 /\ on_event(dispatched[Len(dispatched)])
              \/ /\ result = "ErrIo" /\ poll_ret = "ErrIo"
                 /\ dispatched = <<>>
        /\ updates = 0 /\ frame_calls = <<>>

\* run has returned Ok in a later iteration whose poll queued an exit
\* request behind another event.
C26_Witness ==
    /\ pc = "returned" /\ result = "Ok" /\ iterated
    /\ Len(expected) >= 2
    /\ ~on_event(expected[1]) /\ on_event(expected[2])
    /\ updates = 0 /\ frame_calls = <<>>

\* C28: a flush that fails has emitted the lowest of the differing indices,
\* up to the one it failed at; the front buffer has the back buffer's cell
\* at the emitted indices and is unchanged everywhere else, and the back
\* buffer is unchanged.  A successful flush that directly follows a failed
\* one emits exactly the indices that still differ and none of those the
\* failed flush had emitted.
C28_FailedFlushKeepsProgress ==
    /\ [][(pc = "r_idle" /\ last'.op = "flush" /\ last'.ret # "Ok") =>
              LET E == Indices(last'.emitted)
                  D == Differing(back_buffer, front_buffer)
              IN  /\ last'.ret = "ErrRender"
                  /\ E \subseteq D
                  /\ Len(last'.emitted) = Cardinality(E)
                  /\ \A i \in E, j \in D \ E : i < j
                  /\ front_buffer' = [i \in DOMAIN front_buffer |->
                                        IF i \in E THEN back_buffer[i]
                                        ELSE front_buffer[i]]
                  /\ back_buffer' = back_buffer]_vars
    /\ [][(/\ pc = "r_idle" /\ last.after_failed # NotFailed
            /\ last'.op = "flush" /\ last'.ret = "Ok") =>
              /\ Indices(last'.emitted) = Differing(back_buffer, front_buffer)
              /\ Indices(last'.emitted) \cap last.after_failed = {}
              /\ front_buffer' = back_buffer]_vars

\* A flush failed at the second of two differing cells, and the flush that
\* followed it emitted that second cell only.
C28_Witness ==
    /\ pc = "r_done" /\ last.op = "flush" /\ last.ret = "Ok"
    /\ last.after_failed = {0}
    /\ Indices(last.emitted) = {1}

\* C29 as stated: index(x, y) fails exactly when x >= width or y >= height
\* and coordinates(i) exactly when i >= width * height; where index
\* succeeds coordinates takes its result back to (x, y), and where
\* coordinates succeeds index takes its result back to i.
C29_IndexAndCoordinatesAreInverse ==
    /\ (pc = "r_done" /\ last.op = "index") =>
          LET ix == index(width, height, last.x, last.y)
              xy == coordinates(width, back_buffer, ix.val)
          IN  /\ last.ret = ix.ret
              /\ (ix.ret # "Ok") <=> (last.x >= width \/ last.y >= height)
              /\ ix.ret = "Ok" =>
                    (xy.ret = "Ok" /\ xy.x = last.x /\ xy.y = last.y)
    /\ (pc = "r_done" /\ last.op = "coordinates") =>
          LET xy == coordinates(width, back_buffer, last.x)
              ix == index(width, height, xy.x, xy.y)
          IN  /\ last.ret = xy.ret
              /\ (xy.ret # "Ok") <=> (last.x >= width * height)
              /\ xy.ret = "Ok" => (ix.ret = "Ok" /\ ix.val = last.x)

====
